---- MODULE Spec2Model ----
(***************************************************************************)
(* A model of hyde/model.py: the Expando attribute tree, the Config        *)
(* resolver with its inheritance chain and staleness tracking, the        *)
(* Context assembler and the persisted Dependents store.                  *)
(***************************************************************************)
EXTENDS Integers, Sequences, FiniteSets, TLC

(***************************************************************************)
(* Part 1.  Values and the attribute tree (make_expando, Expando).        *)
(*                                                                         *)
(* A value is a pair <<tag, children>>.  Scalars have no children; a      *)
(* list, tuple, set or frozenset has its elements as children; a dict or  *)
(* an Expando has one child per member, <<key, <<value>>>>.               *)
(***************************************************************************)

\* Nesting depth of the values drawn as inputs of the round trip.
MaxDepth == 4

\* SEQS = (tuple, list, set, frozenset)
SEQS == {"tuple", "list", "set", "frozenset"}

Scalars == {<<"null", <<>>>>, <<"int", <<>>>>}

\* The member names used inside nested mappings.
MemberKeys == {"a"}

Tag(v) == v[1]
Kids(v) == v[2]

\* Python only lets hashable values be members of a set or frozenset.
RECURSIVE Hashable(_)
Hashable(v) ==
    CASE Tag(v) \in {"null", "int"} -> TRUE
      [] Tag(v) \in {"tuple", "frozenset"} ->
            \A i \in 1..Len(Kids(v)) : Hashable(Kids(v)[i])
      [] OTHER -> FALSE

\* The empty container and the one-element containers over S.
ShortSeqs(S) == {<<>>} \cup {<<x>> : x \in S}

RECURSIVE ValuesOfDepth(_)
ValuesOfDepth(n) ==
    IF n = 0 THEN Scalars
    ELSE LET Below == ValuesOfDepth(n - 1)
             HashBelow == {x \in Below : Hashable(x)}
         IN  Scalars
             \cup {<<k, s>> : k \in {"list", "tuple"}, s \in ShortSeqs(Below)}
             \cup {<<k, s>> : k \in {"set", "frozenset"}, s \in ShortSeqs(HashBelow)}
             \cup {<<"dict", s>> :
                     s \in ShortSeqs({<<key, <<x>>>> : key \in MemberKeys, x \in Below})}

\* The mappings handed to Expando(...): string-keyed, nested up to MaxDepth.
Mappings == {v \in ValuesOfDepth(MaxDepth) : Tag(v) = "dict"}

RECURSIVE make_expando(_)
\* make_expando(primitive): a dict becomes an Expando (Expando.__init__ ->
\* update -> set_expando wraps every member), a SEQS container becomes the
\* same kind of container of wrapped elements, anything else passes through.
make_expando(primitive) ==
    IF Tag(primitive) = "dict"
    THEN <<"Expando",
           [i \in 1..Len(Kids(primitive)) |->
               <<Kids(primitive)[i][1], <<make_expando(Kids(primitive)[i][2][1])>>>>]>>
    ELSE IF Tag(primitive) \in SEQS
    THEN <<Tag(primitive),
           [i \in 1..Len(Kids(primitive)) |-> make_expando(Kids(primitive)[i])]>>
    ELSE primitive

RECURSIVE to_dict(_)
\* Expando.to_dict: a member that is an Expando is unwrapped recursively; a
\* member that is a SEQS container is rebuilt with each element that is
\* itself an Expando unwrapped and every other element kept as it is; any
\* other member is copied.
to_dict(node) ==
    <<"dict",
      [i \in 1..Len(Kids(node)) |->
         LET k == Kids(node)[i][1]
             v == Kids(node)[i][2][1]
         IN  IF Tag(v) = "Expando" THEN <<k, <<to_dict(v)>>>>
             ELSE IF Tag(v) \in SEQS
             THEN <<k, <<  <<Tag(v),
                            [j \in 1..Len(Kids(v)) |->
                               IF Tag(Kids(v)[j]) = "Expando"
                               THEN to_dict(Kids(v)[j])
                               ELSE Kids(v)[j]]>>  >>>>
             ELSE <<k, <<v>>>>]>>

\* Does an Expando node occur anywhere inside v?
RECURSIVE HasExpando(_)
HasExpando(v) ==
    \/ Tag(v) = "Expando"
    \/ /\ Tag(v) \in SEQS
       /\ \E i \in 1..Len(Kids(v)) : HasExpando(Kids(v)[i])
    \/ /\ Tag(v) = "dict"
       /\ \E i \in 1..Len(Kids(v)) : HasExpando(Kids(v)[i][2][1])

NoValue == <<"none", <<>>>>

\* The value of member key of a dict or an Expando, NoValue if it has none.
Member(node, key) ==
    IF \E i \in 1..Len(Kids(node)) : Kids(node)[i][1] = key
    THEN Kids(node)[CHOOSE i \in 1..Len(Kids(node)) : Kids(node)[i][1] = key][2][1]
    ELSE NoValue

\* set_expando(key, value): setattr(self, str(key), make_expando(value));
\* an attribute that exists is replaced, a new one is added.
set_expando(node, key, value) ==
    IF Member(node, key) # NoValue
    THEN <<"Expando",
           [i \in 1..Len(Kids(node)) |->
               IF Kids(node)[i][1] = key THEN <<key, <<make_expando(value)>>>>
               ELSE Kids(node)[i]]>>
    ELSE <<"Expando", Append(Kids(node), <<key, <<make_expando(value)>>>>)>>

\* for key, value in d.items(): self.set_expando(key, value)
RECURSIVE SetItems(_, _)
SetItems(node, items) ==
    IF items = <<>> THEN node
    ELSE SetItems(set_expando(node, Head(items)[1], Head(items)[2][1]), Tail(items))

\* The loop of update merging a mapping into a member that is a node
\* already, instead of replacing the member.
RECURSIVE MergeItems(_, _)
MergeItems(node, items) ==
    IF items = <<>> THEN node
    ELSE LET key == Head(items)[1]
             value == Head(items)[2][1]
             old == Member(node, key)
         IN  IF Tag(old) = "Expando" /\ Tag(value) = "dict"
             THEN MergeItems(
                    <<"Expando",
                      [i \in 1..Len(Kids(node)) |->
                          IF Kids(node)[i][1] = key
                          THEN <<key, <<MergeItems(old, Kids(value))>>>>
                          ELSE Kids(node)[i]]>>,
                    Tail(items))
             ELSE MergeItems(set_expando(node, key, value), Tail(items))

\* Expando.update as a deep merge.
UpdateDeep(node, d) ==
    IF Tag(d) = "dict" THEN MergeItems(node, Kids(d))
    ELSE IF Tag(d) = "Expando" THEN MergeItems(node, Kids(to_dict(d)))
    ELSE node

\* Expando.update(d): d = d or {}; the items of a dict are set one by one,
\* an Expando is turned into a dict by to_dict first, anything else is
\* ignored.
update(node, d) ==
    IF Tag(d) = "dict" THEN SetItems(node, Kids(d))
    ELSE IF Tag(d) = "Expando" THEN SetItems(node, Kids(to_dict(d)))
    ELSE node

(***************************************************************************)
(* Part 2.  The files of the site directory and the Config resolver.      *)
(***************************************************************************)

\* Bound on the clock read by datetime.now().
MaxTime == 2

\* Bound on the depth of the read_config recursion that is followed.
MaxStack == 3

\* Bound on the number of reload() calls that run a resolution.
MaxReloads == 1

\* Bound on the number of times a file of the site directory is written.
MaxWrites == 1

\* load_time = datetime.min
MinTime == -1

\* File names under the site directory.  'site.yaml' is the conventional
\* default name; "gone.yaml" is a name under which no file is ever stored.
Names == {"site.yaml", "base.yaml", "gone.yaml"}
DiskNames == {"site.yaml", "base.yaml"}
NoName == "None"

\* Top-level configuration keys other than 'extends': one that has a
\* built-in default and one that has none.
Keys == {"mode", "author"}

\* The values a document or the override gives a key: a scalar or a mapping.
ConfigValues == {<<"int", <<>>>>, <<"dict", << <<"a", << <<"int", <<>>>> >>>> >>>>}

\* A string-keyed mapping with the optional key 'extends': vals[k] = NoValue
\* and extends = NoName stand for a key that is not in the mapping.
ConfMaps == [vals : [Keys -> ConfigValues \cup {NoValue}], extends : Names \cup {NoName}]
EmptyConf == [vals |-> [k \in Keys |-> NoValue], extends |-> NoName]

\* What yaml.load makes of a file: a mapping, None (an empty document) or a
\* parse failure; "missing" is a file that does not exist.
MapDocs == [kind : {"map"}, vals : [Keys -> ConfigValues \cup {NoValue}],
            extends : Names \cup {NoName}]
NullDoc == [kind |-> "null", vals |-> EmptyConf.vals, extends |-> NoName]
BadDoc == [kind |-> "bad", vals |-> EmptyConf.vals, extends |-> NoName]
Missing == [kind |-> "missing", vals |-> EmptyConf.vals, extends |-> NoName]
Docs == MapDocs \cup {NullDoc, BadDoc}

\* Documents that carry no key but, possibly, 'extends'.
LinkDocs == {d \in MapDocs : d.vals = EmptyConf.vals}

ConfOf(d) == [vals |-> d.vals, extends |-> d.extends]

\* self.default_config = dict(mode='production', ...)
default_config ==
    [vals |-> [k \in Keys |-> IF k = "mode" THEN <<"int", <<>>>> ELSE NoValue],
     extends |-> NoName]

\* dict.update the wrong way round: a key dst already has is kept.
DictUpdateKeepsOld(dst, src) ==
    [vals |-> [k \in Keys |-> IF dst.vals[k] # NoValue THEN dst.vals[k] ELSE src.vals[k]],
     extends |-> IF dst.extends # NoName THEN dst.extends ELSE src.extends]

\* dict.update: every key of src replaces the key of dst.
DictUpdate(dst, src) ==
    [vals |-> [k \in Keys |-> IF src.vals[k] # NoValue THEN src.vals[k] ELSE dst.vals[k]],
     extends |-> IF src.extends # NoName THEN src.extends ELSE dst.extends]

\* Expando.update dropping the members that d does not have.
ExpandoUpdateReplaces(node, d) ==
    [vals |-> [k \in Keys |-> make_expando(d.vals[k])], extends |-> d.extends]

\* Expando.update(d) with d a dict: set_expando(key, value) for every key of
\* d, that is setattr(self, key, make_expando(value)).
ExpandoUpdate(node, d) ==
    [vals |-> [k \in Keys |-> IF d.vals[k] # NoValue THEN make_expando(d.vals[k])
                              ELSE node.vals[k]],
     extends |-> IF d.extends # NoName THEN d.extends ELSE node.extends]

VARIABLES
    tpc,      \* position of the round trip: "input", "wrapped" or "unwrapped"
    tin,      \* the mapping v given to Expando(v)
    tnode,    \* the Expando built from it
    tout,     \* the result of tnode.to_dict()
    tsrc,     \* the source d given to node.update(d)
    roots,    \* the four root attributes the Config holds
    paths,    \* the derived paths as they were read last
    ppc,      \* "set" after a root was set, "read" after the paths were read
    fs,       \* the document stored under each file name
    mtime,    \* the modification time of each file
    now,      \* the clock
    writes,   \* how many times a file has been written
    dirty,    \* a file was written since the constructor or reload() was last called
    modified, \* the files written after the resolution last begun had read them
    began,    \* the clock when the constructor or reload() began its resolution
    reloads,  \* how many reload() calls have run a resolution
    cpc,      \* the Config: "none", "call", "ret", "ready" or "failed"
    caller,   \* who runs load(): "init" (the constructor) or "reload"
    config_file,   \* self.config_file
    config_dict,   \* self.config_dict
    tree,          \* the attributes set on the Config by Expando.update
    config_files,  \* self.config_files, the provenance list
    load_time,     \* self.load_time
    stack,    \* read_config frames waiting for their parent: the parsed conf
    callee,   \* the name the innermost read_config was called with
    retval,   \* the mapping the innermost read_config returned
    chain,    \* the files read by the resolution in progress or last run
    prev,     \* the tree and the read_config result when reload() was called
    last,     \* the operation that returned or the event that happened last
    ctx,      \* the object given to Context.load: its data and providers
    res,      \* the provider resource files under the site directory
    xpc,      \* Context.load: "idle", "done" or "error"
    context,  \* the mapping Context.load returned
    siteDir,     \* the site directory exists
    deps_file,   \* the text of the backing file, NoValue when there is none
    dep,         \* the Dependents stores: constructed or not, and self.data
    registered,  \* the stores whose save is registered with atexit, in order
    pending,     \* the atexit handlers still to run at session end
    dphase,      \* the session: "running", "exiting" or "ended"
    fresh,       \* the stores constructed over the file as it is now, untouched
    flushed,     \* the mapping written by the save that last wrote the file
    dlast        \* the Dependents operation that returned last

treeVars == <<tpc, tin, tnode, tout, tsrc>>
pathVars == <<roots, paths, ppc>>
diskVars == <<fs, mtime, now, writes, dirty, modified, began>>
confVars == <<cpc, caller, config_file, config_dict, tree, config_files,
              load_time, stack, callee, retval, chain, prev, reloads>>


ctxVars == <<ctx, res, xpc, context>>
depVars == <<siteDir, deps_file, dep, registered, pending, dphase, fresh, flushed, dlast>>
restVars == <<treeVars, pathVars, ctxVars, depVars>>

vars == <<treeVars, pathVars, diskVars, confVars, last, ctxVars, depVars>>

(***************************************************************************)
(* Part 3.  Context.load.                                                  *)
(***************************************************************************)

IntVal == <<"int", <<>>>>
MapVal == <<"dict", << <<"a", << <<"int", <<>>>> >>>> >>>>
NullVal == <<"null", <<>>>>

\* Text that yaml.load cannot parse.
BadText == <<"bad", <<>>>>

\* The names used as members of ctx.data and of ctx.providers.
CtxKeys == {"x", "y"}

\* The resource files that providers name.
ResNames == {"r1.yaml", "r2.yaml"}

\* What a resource file holds: a mapping, an empty document, malformed text.
ResContents == {MapVal, NullVal, BadText}

\* ctx.data: not there at all, a value without __dict__ (a scalar or a
\* list), or an Expando whose members are wrapped values.
DataMembers == [CtxKeys -> {IntVal, make_expando(MapVal), NoValue}]
NoData == [k \in CtxKeys |-> NoValue]
CtxData ==
    {[kind |-> "absent", members |-> NoData], [kind |-> "scalar", members |-> NoData]}
    \cup [kind : {"node"}, members : DataMembers]

\* ctx.providers: likewise; its members name resource files.
ProviderMembers == [CtxKeys -> ResNames \cup {NoName}]
NoProviders == [k \in CtxKeys |-> NoName]
CtxProviders ==
    {[kind |-> "absent", members |-> NoProviders],
     [kind |-> "scalar", members |-> NoProviders]}
    \cup [kind : {"node"}, members : ProviderMembers]

\* obj.__dict__ raises AttributeError unless obj is an Expando (caught by
\* the caller, which then adds nothing).
HasDict(obj) == obj.kind = "node"

\* The loop over providers.items() that lets explicit data win: a name
\* already in the context is left alone.
RECURSIVE ApplyProvidersDataWins(_, _, _)
ApplyProvidersDataWins(c, providers, todo) ==
    IF todo = {} THEN [ok |-> TRUE, map |-> c]
    ELSE LET name == CHOOSE n \in todo : TRUE
             resource == res[providers[name]]
         IN  IF resource = NoValue \/ c[name] # NoValue
             THEN ApplyProvidersDataWins(c, providers, todo \ {name})
             ELSE IF resource = BadText THEN [ok |-> FALSE, map |-> c]
             ELSE ApplyProvidersDataWins([c EXCEPT ![name] = make_expando(resource)],
                                         providers, todo \ {name})

\* The loop over providers.items() that leaves None for a missing resource.
RECURSIVE ApplyProvidersPlaceholder(_, _, _)
ApplyProvidersPlaceholder(c, providers, todo) ==
    IF todo = {} THEN [ok |-> TRUE, map |-> c]
    ELSE LET name == CHOOSE n \in todo : TRUE
             resource == res[providers[name]]
         IN  IF resource = NoValue
             THEN ApplyProvidersPlaceholder([c EXCEPT ![name] = NullVal],
                                            providers, todo \ {name})
             ELSE IF resource = BadText THEN [ok |-> FALSE, map |-> c]
             ELSE ApplyProvidersPlaceholder([c EXCEPT ![name] = make_expando(resource)],
                                            providers, todo \ {name})

\* for provider_name, resource_name in providers.items(): if the resource
\* exists it is parsed (a parse failure propagates), wrapped and stored
\* under the provider's name; if not, nothing happens.
RECURSIVE ApplyProviders(_, _, _)
ApplyProviders(c, providers, todo) ==
    IF todo = {} THEN [ok |-> TRUE, map |-> c]
    ELSE LET name == CHOOSE n \in todo : TRUE
             resource == res[providers[name]]
         IN  IF resource = NoValue
             THEN ApplyProviders(c, providers, todo \ {name})
             ELSE IF resource = BadText THEN [ok |-> FALSE, map |-> c]
             ELSE ApplyProviders([c EXCEPT ![name] = make_expando(resource)],
                                 providers, todo \ {name})

\* Context.load(sitepath, ctx)
ContextLoad ==
    /\ xpc = "idle"
    /\ LET c0 == IF HasDict(ctx.data) THEN ctx.data.members ELSE NoData
           providers == IF HasDict(ctx.providers) THEN ctx.providers.members
                        ELSE NoProviders
           r == ApplyProviders(c0, providers, {n \in CtxKeys : providers[n] # NoName})
       IN  /\ xpc' = IF r.ok THEN "done" ELSE "error"
           /\ context' = IF r.ok THEN r.map ELSE context
    /\ UNCHANGED <<ctx, res, treeVars, pathVars, diskVars, confVars, last, depVars>>

CtxIdle ==
    /\ ctx = [data |-> [kind |-> "absent", members |-> NoData],
              providers |-> [kind |-> "absent", members |-> NoProviders]]
    /\ res = [r \in ResNames |-> NoValue]
    /\ xpc = "idle"
    /\ context = NoData

(***************************************************************************)
(* Part 4.  Dependents.                                                    *)
(***************************************************************************)

\* The Dependents objects of the session.
Stores == {1, 2}

\* The resource identifiers used as keys, in the order yaml.dump sorts them.
DepKeys == <<"a", "b">>
DepKeySet == {DepKeys[i] : i \in 1..Len(DepKeys)}

\* The dependency information stored under a key: a list of identifiers.
DepValues == {<<"list", <<>>>>, <<"list", <<IntVal>>>>}

\* self.data is a mapping (NoValue: the key is not in it) or None.
DepMaps == [DepKeySet -> DepValues \cup {NoValue}]
EmptyDeps == [k \in DepKeySet |-> NoValue]
NoneData == [none |-> TRUE, map |-> EmptyDeps]
DataOf(m) == [none |-> FALSE, map |-> m]

\* yaml.dump(data): None is written as the null document, a mapping as one
\* entry per key that is in it, in sorted key order.
yaml_dump(data) ==
    IF data.none THEN NullVal
    ELSE LET present == SelectSeq(DepKeys, LAMBDA k : data.map[k] # NoValue)
         IN  <<"dict", [i \in 1..Len(present) |-> <<present[i], <<data.map[present[i]]>>>>]>>

\* yaml.load(text): the null document is None, a mapping document is the
\* mapping of its entries.
yaml_load(text) ==
    IF Tag(text) = "null" THEN NoneData
    ELSE DataOf([k \in DepKeySet |->
                    IF \E i \in 1..Len(Kids(text)) : Kids(text)[i][1] = k
                    THEN LET i == CHOOSE i \in 1..Len(Kids(text)) : Kids(text)[i][1] = k
                         IN  Kids(text)[i][2][1]
                    ELSE NoValue])

\* The texts the backing file can hold before the session starts.
DepTexts == {yaml_dump(DataOf(m)) : m \in DepMaps} \cup {NullVal}

NoStore == [live |-> FALSE, data |-> DataOf(EmptyDeps)]

DepIdle ==
    /\ siteDir = TRUE
    /\ deps_file = NoValue
    /\ dep = [s \in Stores |-> NoStore]
    /\ registered = <<>>
    /\ pending = <<>>
    /\ dphase = "running"
    /\ fresh = {}
    /\ flushed = [valid |-> FALSE, data |-> DataOf(EmptyDeps)]
    /\ dlast = <<"none", 0>>

\* Dependents.__init__ ignoring the backing file.
DepConstructEmpty(s) ==
    /\ dphase = "running"
    /\ ~dep[s].live
    /\ dep' = [dep EXCEPT ![s] = [live |-> TRUE, data |-> DataOf(EmptyDeps)]]
    /\ registered' = Append(registered, s)
    /\ fresh' = fresh \cup {s}
    /\ dlast' = <<"init", s>>
    /\ UNCHANGED <<siteDir, deps_file, pending, dphase, flushed,
                   treeVars, pathVars, diskVars, confVars, last, ctxVars>>

\* Dependents.__init__: self.data = {} or, if the backing file exists, what
\* yaml.load makes of it; self.save is registered with atexit.  (On text
\* that yaml.load cannot parse the constructor raises: no store is made.)
DepConstruct(s) ==
    /\ dphase = "running"
    /\ ~dep[s].live
    /\ deps_file # BadText
    /\ dep' = [dep EXCEPT ![s] =
                 [live |-> TRUE,
                  data |-> IF deps_file # NoValue THEN yaml_load(deps_file)
                           ELSE DataOf(EmptyDeps)]]
    /\ registered' = Append(registered, s)
    /\ fresh' = fresh \cup {s}
    /\ dlast' = <<"init", s>>
    /\ UNCHANGED <<siteDir, deps_file, pending, dphase, flushed,
                   treeVars, pathVars, diskVars, confVars, last, ctxVars>>

\* store[k] = v (UserDict.__setitem__ on self.data, which must not be None)
DepSet(s, k, v) ==
    /\ dphase = "running"
    /\ dep[s].live
    /\ ~dep[s].data.none
    /\ dep' = [dep EXCEPT ![s].data.map[k] = v]
    /\ fresh' = fresh \ {s}
    /\ dlast' = <<"set", s>>
    /\ UNCHANGED <<siteDir, deps_file, registered, pending, dphase, flushed,
                   treeVars, pathVars, diskVars, confVars, last, ctxVars>>

\* del store[k]
DepDel(s, k) ==
    /\ dphase = "running"
    /\ dep[s].live
    /\ ~dep[s].data.none
    /\ dep[s].data.map[k] # NoValue
    /\ dep' = [dep EXCEPT ![s].data.map[k] = NoValue]
    /\ fresh' = fresh \ {s}
    /\ dlast' = <<"del", s>>
    /\ UNCHANGED <<siteDir, deps_file, registered, pending, dphase, flushed,
                   treeVars, pathVars, diskVars, confVars, last, ctxVars>>

\* save() adding its entries to the entries the file already holds.
WriteDepsMerge(s) ==
    IF siteDir
    THEN /\ deps_file' =
               IF deps_file = NoValue \/ dep[s].data.none \/ yaml_load(deps_file).none
               THEN yaml_dump(dep[s].data)
               ELSE yaml_dump(DataOf([k \in DepKeySet |->
                       IF dep[s].data.map[k] # NoValue THEN dep[s].data.map[k]
                       ELSE yaml_load(deps_file).map[k]]))
         /\ flushed' = [valid |-> TRUE, data |-> dep[s].data]
         /\ fresh' = {}
    ELSE UNCHANGED <<deps_file, flushed, fresh>>

\* save() writing the file whether or not the directory is there.
WriteDepsAlways(s) ==
    /\ deps_file' = yaml_dump(dep[s].data)
    /\ flushed' = [valid |-> TRUE, data |-> dep[s].data]
    /\ fresh' = {}

\* The body of save(): if self.deps_file.parent.exists, the file is
\* overwritten with yaml.dump(self.data); otherwise nothing is done.
WriteDeps(s) ==
    IF siteDir
    THEN /\ deps_file' = yaml_dump(dep[s].data)
         /\ flushed' = [valid |-> TRUE, data |-> dep[s].data]
         /\ fresh' = {}
    ELSE UNCHANGED <<deps_file, flushed, fresh>>

\* An explicit call of save().
DepSave(s) ==
    /\ dphase = "running"
    /\ dep[s].live
    /\ WriteDeps(s)
    /\ dlast' = <<"save", s>>
    /\ UNCHANGED <<siteDir, dep, registered, pending, dphase,
                   treeVars, pathVars, diskVars, confVars, last, ctxVars>>

\* The session ends: the atexit handlers are about to run.
BeginExit ==
    /\ dphase = "running"
    /\ dphase' = "exiting"
    /\ pending' = registered
    /\ UNCHANGED <<siteDir, deps_file, dep, registered, fresh, flushed, dlast,
                   treeVars, pathVars, diskVars, confVars, last, ctxVars>>

\* atexit runs the handler registered last: the save() of that store.
ExitFlush ==
    /\ dphase = "exiting"
    /\ pending # <<>>
    /\ WriteDeps(pending[Len(pending)])
    /\ pending' = SubSeq(pending, 1, Len(pending) - 1)
    /\ dlast' = <<"flush", pending[Len(pending)]>>
    /\ UNCHANGED <<siteDir, dep, registered, dphase,
                   treeVars, pathVars, diskVars, confVars, last, ctxVars>>

\* Every handler has run.
EndSession ==
    /\ dphase = "exiting"
    /\ pending = <<>>
    /\ dphase' = "ended"
    /\ UNCHANGED <<siteDir, deps_file, dep, registered, pending, fresh, flushed,
                   dlast, treeVars, pathVars, diskVars, confVars, last, ctxVars>>

\* The site directory is deleted, and the backing file with it.
RemoveSiteDir ==
    /\ siteDir
    /\ siteDir' = FALSE
    /\ deps_file' = NoValue
    /\ fresh' = {}
    /\ flushed' = [valid |-> FALSE, data |-> DataOf(EmptyDeps)]
    /\ UNCHANGED <<dep, registered, pending, dphase, dlast,
                   treeVars, pathVars, diskVars, confVars, last, ctxVars>>

(***************************************************************************)
(* Part 5.  The derived paths of a Config.                                 *)
(*                                                                         *)
(* A path is absolute or relative and has a sequence of names; ".."       *)
(* names the parent folder.                                                *)
(***************************************************************************)

RelPath(segs) == [abs |-> FALSE, segs |-> segs]
AbsPath(segs) == [abs |-> TRUE, segs |-> segs]

\* self.sitepath = Folder(sitepath)
sitepath == AbsPath(<<"site">>)

\* The values given to the root attributes: one name, two names, a path
\* that climbs out of its base, an absolute path.
RootValues ==
    {RelPath(<<"content">>), RelPath(<<"media">>), RelPath(<<"www", "media">>),
     RelPath(<<"..", "www">>), AbsPath(<<"www">>)}

RootNames == {"deploy_root", "content_root", "media_root", "layout_root"}

\* default_config: content_root='content', deploy_root='deploy',
\* media_root='media', layout_root='layout'
DefaultRoots ==
    [deploy_root |-> RelPath(<<"deploy">>), content_root |-> RelPath(<<"content">>),
     media_root |-> RelPath(<<"media">>), layout_root |-> RelPath(<<"layout">>)]

\* Folder.child and Folder.child_folder: os.path.join(self.path, fragment),
\* where an absolute fragment replaces what is before it.
child(folder, fragment) ==
    IF fragment.abs THEN fragment
    ELSE [abs |-> folder.abs, segs |-> folder.segs \o fragment.segs]

\* The names of a path with every "name/.." pair removed; ".." at the root
\* of an absolute path is the root.
RECURSIVE Collapse(_, _, _)
Collapse(abs, done, todo) ==
    IF todo = <<>> THEN done
    ELSE IF Head(todo) = ".." /\ done # <<>> /\ done[Len(done)] # ".."
    THEN Collapse(abs, SubSeq(done, 1, Len(done) - 1), Tail(todo))
    ELSE IF Head(todo) = ".." /\ done = <<>> /\ abs
    THEN Collapse(abs, done, Tail(todo))
    ELSE Collapse(abs, Append(done, Head(todo)), Tail(todo))

\* FS.fully_expanded_path: the normalised path.
fully_expanded_path(p) == [abs |-> p.abs, segs |-> Collapse(p.abs, <<>>, p.segs)]

\* _expand_path(sitepath, path)
expand_path(site, path) == fully_expanded_path(child(site, path))

deploy_root_path == expand_path(sitepath, roots.deploy_root)
content_root_path == expand_path(sitepath, roots.content_root)
layout_root_path == expand_path(sitepath, roots.layout_root)

\* media_root_path deriving the media folder from the site path.
MediaUnderSite == expand_path(sitepath, roots.media_root)

\* media_root_path: Folder(self.content_root).child(self.media_root),
\* expanded under the site path.
media_root_path == expand_path(sitepath, child(roots.content_root, roots.media_root))

NoPaths == [deploy |-> sitepath, content |-> sitepath, media |-> sitepath,
            layout |-> sitepath]

PathIdle ==
    /\ roots = DefaultRoots
    /\ paths = NoPaths
    /\ ppc = "set"

\* Expando.update or an assignment gives a root attribute a new value.
SetRoot(k, v) ==
    /\ roots' = [roots EXCEPT ![k] = v]
    /\ paths' = NoPaths
    /\ ppc' = "set"
    /\ UNCHANGED <<treeVars, diskVars, confVars, last, ctxVars, depVars>>

\* A caller reads the four path properties.
ReadPaths ==
    /\ ppc = "set"
    /\ paths' = [deploy |-> deploy_root_path, content |-> content_root_path,
                 media |-> media_root_path, layout |-> layout_root_path]
    /\ ppc' = "read"
    /\ UNCHANGED <<roots, treeVars, diskVars, confVars, last, ctxVars, depVars>>

(***************************************************************************)
(* The attribute tree round trip.                                          *)
(***************************************************************************)

TreeIdle ==
    /\ tpc = "input"
    /\ tin = <<"dict", <<>>>>
    /\ tnode = NoValue
    /\ tout = NoValue
    /\ tsrc = NoValue

\* node = Expando(v)
Wrap ==
    /\ tpc = "input"
    /\ tnode' = make_expando(tin)
    /\ tpc' = "wrapped"
    /\ UNCHANGED <<tin, tout, tsrc, pathVars, diskVars, confVars, last, ctxVars, depVars>>

\* result = node.to_dict()
Unwrap ==
    /\ tpc = "wrapped"
    /\ tout' = to_dict(tnode)
    /\ tpc' = "unwrapped"
    /\ UNCHANGED <<tin, tnode, tsrc, pathVars, diskVars, confVars, last, ctxVars, depVars>>

\* node.update(d)
Update ==
    /\ tpc = "wrapped"
    /\ tnode' = update(tnode, tsrc)
    /\ tpc' = "updated"
    /\ UNCHANGED <<tin, tout, tsrc, pathVars, diskVars, confVars, last, ctxVars, depVars>>

\* dict.update on mappings in member form: an item of src replaces the item
\* of dst with the same key or is added after the others.
RECURSIVE dict_update(_, _)
dict_update(dst, items) ==
    IF items = <<>> THEN dst
    ELSE LET key == Head(items)[1]
             new == IF Member(dst, key) # NoValue
                    THEN <<"dict", [i \in 1..Len(Kids(dst)) |->
                                      IF Kids(dst)[i][1] = key THEN Head(items)
                                      ELSE Kids(dst)[i]]>>
                    ELSE <<"dict", Append(Kids(dst), Head(items))>>
         IN  dict_update(new, Tail(items))

\* Values that are neither mappings nor SEQS containers: a datetime, a
\* File, a Folder, a string.
DateTime == <<"datetime", <<>>>>
FileObj == <<"File", <<>>>>
FolderObj == <<"Folder", <<>>>>
StrVal == <<"str", <<>>>>

\* self.default_config, with one of its keys.
DefaultsDict == <<"dict", << <<"mode", <<StrVal>>>> >>>>

\* The attributes that Config.__init__ and read_config set on the object
\* itself before Expando.__init__ runs: default_config, config_file,
\* config_dict, load_time, config_files (one file was read) and sitepath.
OwnAttributes(cd) ==
    <<"Expando",
      << <<"default_config", <<DefaultsDict>>>>, <<"config_file", <<StrVal>>>>,
         <<"config_dict", <<cd>>>>, <<"load_time", <<DateTime>>>>,
         <<"config_files", << <<"list", <<FileObj>>>> >>>>,
         <<"sitepath", <<FolderObj>>>> >>>>

\* load() for a document without 'extends': the defaults, then the
\* document, then config_dict if it is not empty.
LoadDoc(doc, cd) ==
    LET conf == dict_update(DefaultsDict, Kids(doc))
    IN  IF Tag(cd) = "dict" /\ Kids(cd) # <<>> THEN dict_update(conf, Kids(cd)) ELSE conf

\* Config(sitepath, config_file, config_dict) seen as the Expando it is:
\* super().__init__(self.load()) sets every key of the loaded mapping as
\* an attribute of the object that already carries its own attributes.
ConfigAttrs ==
    /\ tpc = "input"
    /\ tnode' = update(OwnAttributes(tsrc), LoadDoc(tin, tsrc))
    /\ tpc' = "wrapped"
    /\ UNCHANGED <<tin, tout, tsrc, pathVars, diskVars, confVars, last, ctxVars, depVars>>

(***************************************************************************)
(* The site directory.                                                     *)
(***************************************************************************)

\* Another program stores document d under name f.
WriteFile(f, d) ==
    /\ writes < MaxWrites
    /\ writes' = writes + 1
    /\ fs' = [fs EXCEPT ![f] = d]
    /\ mtime' = [mtime EXCEPT ![f] = now]
    /\ dirty' = TRUE
    /\ modified' = IF \E i \in 1..Len(chain) : chain[i] = f
                   THEN modified \cup {f} ELSE modified
    /\ UNCHANGED <<now, began, restVars, confVars, last>>

\* Time passes.
Tick ==
    /\ now < MaxTime
    /\ now' = now + 1
    /\ UNCHANGED <<fs, mtime, writes, dirty, modified, began, restVars, confVars, last>>

(***************************************************************************)
(* Config.                                                                 *)
(***************************************************************************)

EmptyTree == EmptyConf

ConfIdle ==
    /\ cpc = "none"
    /\ caller = "init"
    /\ config_file = NoName
    /\ config_dict = EmptyConf
    /\ tree = EmptyTree
    /\ config_files = <<>>
    /\ load_time = MinTime
    /\ stack = <<>>
    /\ callee = NoName
    /\ retval = EmptyConf
    /\ chain = <<>>
    /\ prev = [tree |-> EmptyTree, read |-> EmptyConf]
    /\ reloads = 0

\* The overrides a caller passes as config_dict (None is the empty mapping:
\* load() treats both alike).
Overrides == {c \in ConfMaps : c.extends = NoName}

\* Config.__init__ up to the call of read_config made by load().
Construct(cf, cd) ==
    /\ cpc = "none"
    /\ config_file' = cf
    /\ config_dict' = cd
    /\ load_time' = MinTime
    /\ config_files' = <<>>
    /\ caller' = "init"
    /\ callee' = cf
    /\ cpc' = "call"
    /\ chain' = <<>>
    /\ dirty' = FALSE
    /\ modified' = {}
    /\ began' = now
    /\ UNCHANGED <<reloads, prev, tree, stack, retval, restVars, fs, mtime, now,
                   writes, last>>

\* conf_file = self.sitepath.child(config_file if config_file else 'site.yaml')
ConfFile(name) == IF name = NoName THEN "site.yaml" ELSE name

\* read_config treating a file that does not exist as an error.
ReadMissingRaises ==
    /\ cpc = "call"
    /\ fs[ConfFile(callee)].kind = "missing"
    /\ stack' = <<>>
    /\ cpc' = IF caller = "init" THEN "failed" ELSE "ready"
    /\ last' = "error"
    /\ UNCHANGED <<reloads, prev, caller, config_file, config_dict, tree, config_files, load_time,
                   callee, retval, chain, restVars, diskVars>>

\* read_config recording a file in the provenance before testing that it
\* exists.
ReadMissingRecords ==
    /\ cpc = "call"
    /\ fs[ConfFile(callee)].kind = "missing"
    /\ config_files' = Append(config_files, ConfFile(callee))
    /\ retval' = EmptyConf
    /\ load_time' = now
    /\ cpc' = "ret"
    /\ UNCHANGED <<reloads, prev, caller, config_file, config_dict, tree, stack,
                   callee, chain, restVars, diskVars, last>>

\* read_config on a file that does not exist: conf = {}, the load time is
\* recorded and {} is returned.
ReadMissing ==
    /\ cpc = "call"
    /\ fs[ConfFile(callee)].kind = "missing"
    /\ retval' = EmptyConf
    /\ load_time' = now
    /\ cpc' = "ret"
    /\ UNCHANGED <<reloads, prev, caller, config_file, config_dict, tree, config_files, stack,
                   callee, chain, restVars, diskVars, last>>

\* read_config on a document without 'extends'.
ReadLeaf ==
    /\ cpc = "call"
    /\ fs[ConfFile(callee)].kind = "map"
    /\ fs[ConfFile(callee)].extends = NoName
    /\ config_files' = Append(config_files, ConfFile(callee))
    /\ chain' = Append(chain, ConfFile(callee))
    /\ retval' = ConfOf(fs[ConfFile(callee)])
    /\ load_time' = now
    /\ cpc' = "ret"
    /\ UNCHANGED <<reloads, prev, caller, config_file, config_dict, tree, stack, callee,
                   restVars, diskVars, last>>

\* read_config with a cycle check: a parent that this resolution has read
\* already is not read again, the document is returned as it is.
ReadExtendsOnce ==
    /\ cpc = "call"
    /\ fs[ConfFile(callee)].kind = "map"
    /\ fs[ConfFile(callee)].extends # NoName
    /\ Len(stack) < MaxStack
    /\ config_files' = Append(config_files, ConfFile(callee))
    /\ chain' = Append(chain, ConfFile(callee))
    /\ IF \E i \in 1..Len(chain') : chain'[i] = ConfFile(fs[ConfFile(callee)].extends)
       THEN /\ retval' = ConfOf(fs[ConfFile(callee)])
            /\ load_time' = now
            /\ cpc' = "ret"
            /\ UNCHANGED <<stack, callee>>
       ELSE /\ stack' = Append(stack, ConfOf(fs[ConfFile(callee)]))
            /\ callee' = fs[ConfFile(callee)].extends
            /\ UNCHANGED <<cpc, load_time, retval>>
    /\ UNCHANGED <<reloads, prev, caller, config_file, config_dict, tree,
                   restVars, diskVars, last>>

\* read_config on a document with 'extends': the document is parsed, kept
\* in the frame, and read_config is called on the parent.
ReadExtends ==
    /\ cpc = "call"
    /\ fs[ConfFile(callee)].kind = "map"
    /\ fs[ConfFile(callee)].extends # NoName
    /\ Len(stack) < MaxStack
    /\ config_files' = Append(config_files, ConfFile(callee))
    /\ chain' = Append(chain, ConfFile(callee))
    /\ stack' = Append(stack, ConfOf(fs[ConfFile(callee)]))
    /\ callee' = fs[ConfFile(callee)].extends
    /\ UNCHANGED <<reloads, prev, cpc, caller, config_file, config_dict, tree, load_time,
                   retval, restVars, diskVars, last>>

\* read_config on a file that yaml.load cannot parse, or that parses to None
\* so that "'extends' in conf" raises: the exception leaves every frame.
ReadFails ==
    /\ cpc = "call"
    /\ fs[ConfFile(callee)].kind \in {"bad", "null"}
    /\ config_files' = Append(config_files, ConfFile(callee))
    /\ chain' = Append(chain, ConfFile(callee))
    /\ stack' = <<>>
    /\ cpc' = IF caller = "init" THEN "failed" ELSE "ready"
    /\ last' = "error"
    /\ UNCHANGED <<reloads, prev, caller, config_file, config_dict, tree, load_time, callee,
                   retval, restVars, diskVars>>

\* The parent's read_config has returned into the frame of its child:
\* parent.update(conf); conf = parent; the load time is recorded again.
ReturnToChild ==
    /\ cpc = "ret"
    /\ stack # <<>>
    /\ retval' = DictUpdate(retval, stack[Len(stack)])
    /\ stack' = SubSeq(stack, 1, Len(stack) - 1)
    /\ load_time' = now
    /\ UNCHANGED <<reloads, prev, cpc, caller, config_file, config_dict, tree, config_files,
                   callee, chain, restVars, diskVars, last>>

\* load() applying config_dict for the constructor only.
LoadOverridesOnce(read) ==
    LET conf == DictUpdate(default_config, read)
    IN  IF config_dict # EmptyConf /\ caller = "init"
        THEN DictUpdate(conf, config_dict) ELSE conf

\* load(): the defaults, then what read_config returned, then config_dict.
Load(read) ==
    LET conf == DictUpdate(default_config, read)
    IN  IF config_dict # EmptyConf THEN DictUpdate(conf, config_dict) ELSE conf

\* The outermost read_config has returned to load(), whose result is given
\* to Expando.__init__ (the constructor) or to self.update (reload).
FinishLoad ==
    /\ cpc = "ret"
    /\ stack = <<>>
    /\ tree' = ExpandoUpdate(tree, Load(retval))
    /\ cpc' = "ready"
    /\ last' = caller
    /\ UNCHANGED <<reloads, prev, caller, config_file, config_dict, config_files, load_time,
                   stack, callee, retval, chain, restVars, diskVars>>

\* reload() without the test of config_file: load() runs for every Config.
ReloadUnboundResolves ==
    /\ cpc = "ready"
    /\ config_file = NoName
    /\ caller' = "reload"
    /\ callee' = config_file
    /\ chain' = <<>>
    /\ cpc' = "call"
    /\ dirty' = FALSE
    /\ UNCHANGED <<config_file, config_dict, tree, config_files, load_time, stack,
                   retval, prev, reloads, restVars, fs, mtime, now, writes, modified,
                   began, last>>

\* reload() on a Config that has no config_file returns at once.
ReloadUnbound ==
    /\ cpc = "ready"
    /\ config_file = NoName
    /\ last' = "reload"
    /\ dirty' = FALSE
    /\ UNCHANGED <<restVars, fs, mtime, now, writes, modified, began, confVars>>

\* reload() on a Config bound to a file, up to the call of read_config.
ReloadBound ==
    /\ cpc = "ready"
    /\ config_file # NoName
    /\ reloads < MaxReloads
    /\ reloads' = reloads + 1
    /\ prev' = [tree |-> tree, read |-> retval]
    /\ caller' = "reload"
    /\ callee' = config_file
    /\ chain' = <<>>
    /\ cpc' = "call"
    /\ dirty' = FALSE
    /\ modified' = {}
    /\ began' = now
    /\ UNCHANGED <<config_file, config_dict, tree, config_files, load_time,
                   stack, retval, restVars, fs, mtime, now, writes, last>>

\* File.has_changed_since(basetime): last_modified > basetime.
has_changed_since(f, basetime) == mtime[f] > basetime

\* needs_refresh() asking every file, not any file, to have changed.
NeedsRefreshAll ==
    IF config_files = <<>> THEN TRUE
    ELSE \A i \in 1..Len(config_files) : has_changed_since(config_files[i], load_time)

\* Config.needs_refresh()
needs_refresh ==
    IF config_files = <<>> THEN TRUE
    ELSE \E i \in 1..Len(config_files) : has_changed_since(config_files[i], load_time)

\* The greatest element of a non-empty set of times.
Max(S) == CHOOSE x \in S : \A y \in S : y <= x

\* Config.last_modified: max(conf.last_modified for conf in
\* self.config_files); max() of an empty sequence raises ValueError.
last_modified == Max({mtime[config_files[i]] : i \in 1..Len(config_files)})

\* A caller reads the last_modified property.
LastModified ==
    /\ cpc = "ready"
    /\ last' = IF config_files = <<>> THEN "error" ELSE "last_modified"
    /\ UNCHANGED <<restVars, diskVars, confVars>>

Resolve == ReadMissing \/ ReadLeaf \/ ReadExtends \/ ReadFails \/ ReturnToChild \/ FinishLoad

(***************************************************************************)
(* Construction of a Config over a site directory that nobody changes.    *)
(***************************************************************************)

DiskInit(docs) ==
    /\ fs \in [Names -> UNION {docs[f] : f \in Names} \cup {Missing}]
    /\ \A f \in Names : fs[f] \in docs[f] \cup {Missing}
    /\ mtime = [f \in Names |-> 0]
    /\ now = 0
    /\ writes = 0
    /\ dirty = FALSE
    /\ modified = {}
    /\ began = 0

LoadInit ==
    /\ TreeIdle
    /\ CtxIdle
    /\ DepIdle
    /\ DiskInit([f \in Names |-> IF f \in DiskNames THEN Docs ELSE {}])
    /\ ConfIdle
    /\ PathIdle
    /\ last = "none"

LoadNext ==
    \/ \E cf \in Names \cup {NoName}, cd \in Overrides : Construct(cf, cd)
    \/ Resolve

SpecLoad == LoadInit /\ [][LoadNext]_vars


(***************************************************************************)
(* The inheritance chain as the files on disk describe it.                 *)
(***************************************************************************)

\* The existing documents met by following 'extends' from name, at most
\* fuel of them.
RECURSIVE ChainFrom(_, _)
ChainFrom(name, fuel) ==
    LET d == fs[ConfFile(name)]
    IN  IF fuel = 0 \/ d.kind = "missing" THEN <<>>
        ELSE <<ConfFile(name)>>
             \o (IF d.kind = "map" /\ d.extends # NoName
                 THEN ChainFrom(d.extends, fuel - 1) ELSE <<>>)

DiskChain == ChainFrom(config_file, Cardinality(Names) + 1)

\* The chain is acyclic and each of its documents is a mapping.
ProperChain ==
    /\ \A i, j \in 1..Len(DiskChain) : DiskChain[i] = DiskChain[j] => i = j
    /\ \A i \in 1..Len(DiskChain) : fs[DiskChain[i]].kind = "map"

\* The sources in increasing precedence: the defaults, the outermost
\* ancestor, ..., the requested document, the override.
Sources ==
    <<default_config>>
    \o [i \in 1..Len(DiskChain) |-> ConfOf(fs[DiskChain[Len(DiskChain) + 1 - i]])]
    \o <<config_dict>>

Defining(k) == {i \in 1..Len(Sources) : Sources[i].vals[k] # NoValue}
Highest(S) == CHOOSE i \in S : \A j \in S : j <= i
DefiningExtends == {i \in 1..Len(Sources) : Sources[i].extends # NoName}

Constructed ==
    caller = "init" /\ cpc \in {"ready", "failed"} /\ last \in {"init", "error"} /\ ~dirty

\* C1: for an acyclic chain of existing documents and any override, the
\* constructor returns a Config in which every top-level key holds the
\* (wrapped) value of the highest-precedence source that defines it, in the
\* order defaults < d_n < ... < d_1 < override, each value taken whole.
MergePrecedence ==
    (Constructed /\ ProperChain) =>
        /\ cpc = "ready"
        /\ \A k \in Keys :
              tree.vals[k] = IF Defining(k) = {} THEN NoValue
                             ELSE make_expando(Sources[Highest(Defining(k))].vals[k])
        /\ tree.extends = IF DefiningExtends = {} THEN NoName
                          ELSE Sources[Highest(DefiningExtends)].extends

\* A child and its ancestor, the defaults and the override all define keys,
\* and each source is overridden by the next.
MergePrecedenceWitness ==
    /\ cpc = "ready"
    /\ config_file = "site.yaml"
    /\ DiskChain = <<"site.yaml", "base.yaml">>
    /\ fs["base.yaml"].vals = [mode |-> MapVal, author |-> IntVal]
    /\ fs["site.yaml"].vals = [mode |-> NoValue, author |-> MapVal]
    /\ config_dict.vals = [mode |-> NoValue, author |-> IntVal]
    /\ tree.vals = [mode |-> make_expando(MapVal), author |-> IntVal]

\* The document the constructor was asked for, and that document's parent.
Requested == fs[ConfFile(config_file)]
Parent == fs[Requested.extends]

\* The value a key has when the only sources are the defaults, one
\* document and the override.
OwnOverDefaults(own, k) ==
    IF config_dict.vals[k] # NoValue THEN config_dict.vals[k]
    ELSE IF own.vals[k] # NoValue THEN own.vals[k]
    ELSE default_config.vals[k]

\* C6: a missing document is not an error and ends the chain: a missing
\* requested document resolves to the defaults, and a document whose
\* 'extends' names a file that does not exist resolves to its own keys on
\* top of the defaults (under the override), the constructor returning
\* normally with nothing left of the missing parent.
MissingIsEmpty ==
    /\ (Constructed /\ Requested.kind = "missing") =>
          /\ cpc = "ready"
          /\ \A k \in Keys : tree.vals[k] = make_expando(OwnOverDefaults(EmptyConf, k))
          /\ tree.extends = NoName
    /\ (Constructed /\ Requested.kind = "map" /\ Requested.extends # NoName
          /\ Parent.kind = "missing") =>
          /\ cpc = "ready"
          /\ \A k \in Keys : tree.vals[k] = make_expando(OwnOverDefaults(Requested, k))
          /\ tree.extends = Requested.extends

MissingIsEmptyWitness ==
    /\ cpc = "ready"
    /\ config_file = "site.yaml"
    /\ Requested.kind = "map"
    /\ Requested.extends = "base.yaml"
    /\ Parent.kind = "missing"
    /\ Requested.vals = [mode |-> NoValue, author |-> MapVal]
    /\ config_dict = EmptyConf
    /\ tree.vals = [mode |-> IntVal, author |-> make_expando(MapVal)]

(***************************************************************************)
(* The round trip through the attribute tree.                              *)
(***************************************************************************)

DiskIdle ==
    /\ fs = [f \in Names |-> Missing]
    /\ mtime = [f \in Names |-> 0]
    /\ now = 0
    /\ writes = 0
    /\ dirty = FALSE
    /\ modified = {}
    /\ began = 0

TreeInit ==
    /\ tpc = "input"
    /\ tin \in Mappings
    /\ tnode = NoValue
    /\ tout = NoValue
    /\ tsrc = NoValue
    /\ DiskIdle
    /\ ConfIdle
    /\ PathIdle
    /\ last = "none"
    /\ CtxIdle
    /\ DepIdle

TreeNext == Wrap \/ Unwrap

SpecTree == TreeInit /\ [][TreeNext]_vars

\* C3: for every mapping v, Expando(v).to_dict() equals v, with every
\* container kind preserved and no Expando node left in the result.
RoundTrip ==
    tpc = "unwrapped" => (tout = tin /\ ~HasExpando(tout))


(***************************************************************************)
(* A Config that is reloaded while the documents are rewritten between    *)
(* its loads.                                                              *)
(***************************************************************************)

\* The documents of this scenario: 'site.yaml' is a mapping with or
\* without the parent 'base.yaml', or it is empty or malformed; 'base.yaml'
\* is a mapping without a parent.
ReloadDocs ==
    [f \in Names |->
        IF f = "site.yaml"
        THEN {d \in MapDocs : d.extends \in {NoName, "base.yaml"}} \cup {NullDoc, BadDoc}
        ELSE IF f = "base.yaml" THEN {d \in MapDocs : d.extends = NoName}
        ELSE {}]

ReloadInit ==
    /\ TreeIdle
    /\ CtxIdle
    /\ DepIdle
    /\ DiskInit(ReloadDocs)
    /\ ConfIdle
    /\ PathIdle
    /\ last = "none"

ReloadNext ==
    \/ \E cf \in {NoName, "site.yaml"}, cd \in Overrides : Construct(cf, cd)
    \/ Resolve
    \/ ReloadBound
    \/ ReloadUnbound
    \/ \E f \in DiskNames : \E d \in ReloadDocs[f] : cpc = "ready" /\ WriteFile(f, d)

SpecReload == ReloadInit /\ [][ReloadNext]_vars


\* The last operation to return was a reload() that ran a resolution, and
\* no file has been written since it began.
Reloaded ==
    last = "reload" /\ cpc = "ready" /\ config_file # NoName /\ reloads > 0 /\ ~dirty

\* The sources that are documents of the chain.
FileDefining(k) == Defining(k) \ {1, Len(Sources)}

\* C4 as claimed: reload() does not apply the override, so a key defined by
\* a backing document and by the override holds the document's value after
\* reload().
OverrideAppliedOnce ==
    Reloaded =>
        \A k \in Keys :
            (FileDefining(k) # {} /\ config_dict.vals[k] # NoValue) =>
                tree.vals[k] = make_expando(Sources[Highest(FileDefining(k))].vals[k])

\* C4 as amended: load() applies the override after chain resolution every
\* time it runs, for the constructor and again for reload(); a key that
\* the override defines holds the override's value after construction and
\* after every reload().
OverrideAppliedOnEveryLoad ==
    (cpc = "ready" /\ last \in {"init", "reload"}) =>
        \A k \in Keys :
            config_dict.vals[k] # NoValue =>
                tree.vals[k] = make_expando(config_dict.vals[k])

OverrideAppliedOnEveryLoadWitness ==
    /\ Reloaded
    /\ DiskChain = <<"site.yaml">>
    /\ fs["site.yaml"].vals["author"] = IntVal
    /\ config_dict.vals["author"] = MapVal
    /\ tree.vals["author"] = make_expando(MapVal)

\* The value load() gives a key that a document of the chain defines.
Resolved(k) ==
    IF config_dict.vals[k] # NoValue THEN config_dict.vals[k]
    ELSE Sources[Highest(FileDefining(k))].vals[k]

\* The key was defined by a backing file at the previous load and no
\* backing file defines it now.
Removed(k) == prev.read.vals[k] # NoValue /\ FileDefining(k) = {}

\* C5 as claimed: after reload() a key that a backing file defines holds the
\* newly resolved value, and a key that was removed from the backing files
\* keeps the value of the previous load, with or without a built-in default.
ReloadAdditive ==
    Reloaded =>
        \A k \in Keys :
            /\ FileDefining(k) # {} => tree.vals[k] = make_expando(Resolved(k))
            /\ Removed(k) => tree.vals[k] = prev.tree.vals[k]

\* C5 as amended: the removed key keeps the value of the previous load
\* when it has no built-in default; a removed key that has a built-in
\* default goes back to the default (under the override).
ReloadAdditiveButDefaults ==
    Reloaded =>
        \A k \in Keys :
            /\ FileDefining(k) # {} => tree.vals[k] = make_expando(Resolved(k))
            /\ (Removed(k) /\ default_config.vals[k] = NoValue) =>
                  tree.vals[k] = prev.tree.vals[k]
            /\ (Removed(k) /\ default_config.vals[k] # NoValue) =>
                  tree.vals[k] = IF config_dict.vals[k] # NoValue
                                 THEN make_expando(config_dict.vals[k])
                                 ELSE make_expando(default_config.vals[k])

ReloadAdditiveButDefaultsWitness ==
    /\ Reloaded
    /\ config_dict = EmptyConf
    /\ prev.read.vals = [mode |-> MapVal, author |-> MapVal]
    /\ DiskChain = <<"site.yaml">>
    /\ fs["site.yaml"].vals = [mode |-> NoValue, author |-> NoValue]
    /\ tree.vals = [mode |-> IntVal, author |-> make_expando(MapVal)]


(***************************************************************************)
(* Staleness: a Config over documents that other programs rewrite at any  *)
(* moment, also while a resolution is reading the chain.                   *)
(***************************************************************************)

StaleDocs ==
    [f \in Names |-> IF f \in DiskNames THEN LinkDocs \cup {NullDoc, BadDoc} ELSE {}]

StaleInit ==
    /\ TreeIdle
    /\ CtxIdle
    /\ DepIdle
    /\ DiskInit(StaleDocs)
    /\ ConfIdle
    /\ PathIdle
    /\ last = "none"

StaleNext ==
    \/ \E cf \in Names \cup {NoName} : Construct(cf, EmptyConf)
    \/ Resolve
    \/ ReloadBound
    \/ ReloadUnbound
    \/ \E f \in DiskNames : \E d \in StaleDocs[f] : WriteFile(f, d)
    \/ Tick

SpecStale == StaleInit /\ [][StaleNext]_vars

\* A file read by the last resolution is newer than the recorded load time.
ContributorNewer == \E i \in 1..Len(chain) : mtime[chain[i]] > load_time

\* C2 as claimed, in the states where it can be read off: needs_refresh()
\* is true while the provenance is empty, false after a load or a reload()
\* while no file has been written since it began, and true once a
\* contributing file is newer than the recorded load time.
StaleAfterAnyReload ==
    cpc = "ready" =>
        /\ config_files = <<>> => needs_refresh
        /\ (config_files # <<>> /\ last \in {"init", "reload"} /\ ~dirty) => ~needs_refresh
        /\ ContributorNewer => needs_refresh

\* The last operation to return was the constructor or a reload() that ran
\* a resolution.
JustLoaded ==
    \/ last = "init"
    \/ last = "reload" /\ config_file # NoName

StaleStates ==
    cpc = "ready" =>
        /\ config_files = <<>> => needs_refresh
        /\ (config_files # <<>> /\ JustLoaded /\ ~dirty) => ~needs_refresh
        /\ ContributorNewer => needs_refresh

\* While no reload() runs a resolution, needs_refresh() stays true.
StaysStale ==
    (cpc = "ready" /\ cpc' = "ready" /\ needs_refresh) => needs_refresh'

\* C2 as amended: needs_refresh() is true while the provenance is empty,
\* false after the constructor or a reload() of a Config bound to a file
\* while no file has been written since it began (a reload() of a Config with
\* no config_file reads nothing and leaves the answer as it was), true as
\* soon as a contributing file's modification time is strictly newer than
\* the recorded load time, and then true until the next reload() that runs
\* a resolution.
Staleness == [] StaleStates /\ [][StaysStale]_vars

\* A contributing file was written after the load, and a later reload()
\* made the Config fresh again.
StalenessWitness ==
    /\ cpc = "ready"
    /\ last = "reload"
    /\ config_file = "site.yaml"
    /\ chain = <<"site.yaml", "base.yaml">>
    /\ mtime["base.yaml"] = 1
    /\ load_time = 2
    /\ prev.tree # EmptyTree
    /\ ~dirty
    /\ ~needs_refresh


(***************************************************************************)
(* Context.load over every ctx and every state of the resource files.     *)
(***************************************************************************)

ContextInit ==
    /\ TreeIdle
    /\ DiskIdle
    /\ ConfIdle
    /\ PathIdle
    /\ last = "none"
    /\ DepIdle
    /\ ctx \in [data : CtxData, providers : CtxProviders]
    /\ res \in [ResNames -> ResContents \cup {NoValue}]
    /\ xpc = "idle"
    /\ context = NoData

ContextNext == ContextLoad

SpecContext == ContextInit /\ [][ContextNext]_vars

\* k is a member of ctx.data.
InData(k) == HasDict(ctx.data) /\ ctx.data.members[k] # NoValue

\* k names a provider, and that provider's resource file exists.
Provided(k) ==
    /\ HasDict(ctx.providers)
    /\ ctx.providers.members[k] # NoName
    /\ res[ctx.providers.members[k]] # NoValue

\* C7: providers are applied after the data: a data key that is also the
\* name of a provider whose resource exists holds the wrapped content of
\* the resource, and every other data key keeps its data value.
ProvidersShadowData ==
    xpc = "done" =>
        \A k \in CtxKeys :
            InData(k) =>
                context[k] = IF Provided(k)
                             THEN make_expando(res[ctx.providers.members[k]])
                             ELSE ctx.data.members[k]

ProvidersShadowDataWitness ==
    /\ xpc = "done"
    /\ ctx.data.members = [x |-> IntVal, y |-> IntVal]
    /\ ctx.providers.members = [x |-> "r1.yaml", y |-> NoName]
    /\ res["r1.yaml"] = MapVal
    /\ context = [x |-> make_expando(MapVal), y |-> IntVal]

\* Every resource that a provider names and that exists can be parsed.
ResourcesParse ==
    \A k \in CtxKeys : Provided(k) => res[ctx.providers.members[k]] # BadText

\* C8: what is absent neither fails Context.load nor leaves a placeholder:
\* with resources that parse, the call returns; the keys of the result are
\* the data keys and the names of the providers whose resource exists; and
\* a provider whose resource is missing leaves its name as the data had it.
AbsentAddsNothing ==
    /\ (xpc # "idle" /\ ResourcesParse) => xpc = "done"
    /\ xpc = "done" =>
          \A k \in CtxKeys :
              /\ context[k] # NoValue <=> (InData(k) \/ Provided(k))
              /\ ~Provided(k) =>
                    context[k] = IF InData(k) THEN ctx.data.members[k] ELSE NoValue

AbsentAddsNothingWitness ==
    /\ xpc = "done"
    /\ ctx.data.kind = "absent"
    /\ ctx.providers.members = [x |-> "r1.yaml", y |-> "r2.yaml"]
    /\ res["r1.yaml"] = NoValue
    /\ res["r2.yaml"] = MapVal
    /\ context = [x |-> NoValue, y |-> make_expando(MapVal)]

(***************************************************************************)
(* A session with Dependents stores over one backing file.                 *)
(***************************************************************************)

DepsInit ==
    /\ TreeIdle
    /\ DiskIdle
    /\ ConfIdle
    /\ PathIdle
    /\ last = "none"
    /\ CtxIdle
    /\ siteDir = TRUE
    /\ deps_file \in DepTexts \cup {NoValue}
    /\ dep = [s \in Stores |-> NoStore]
    /\ registered = <<>>
    /\ pending = <<>>
    /\ dphase = "running"
    /\ fresh = {}
    /\ flushed = [valid |-> FALSE, data |-> DataOf(EmptyDeps)]
    /\ dlast = <<"none", 0>>

DepsNext ==
    \/ \E s \in Stores : DepConstruct(s)
    \/ \E s \in Stores, k \in DepKeySet, v \in DepValues : DepSet(s, k, v)
    \/ \E s \in Stores, k \in DepKeySet : DepDel(s, k)
    \/ \E s \in Stores : DepSave(s)
    \/ BeginExit
    \/ ExitFlush
    \/ EndSession
    \/ RemoveSiteDir

SpecDeps == DepsInit /\ [][DepsNext]_vars

\* C9: a store constructed over the file that a save() wrote holds the
\* mapping the saving store had in memory at the time of the save, and a
\* store constructed when there is no backing file is empty.
PersistenceRoundTrip ==
    \A s \in fresh :
        /\ deps_file = NoValue => dep[s].data = DataOf(EmptyDeps)
        /\ (deps_file # NoValue /\ flushed.valid) => dep[s].data = flushed.data

\* Store 1 was written to and deleted from and then saved; store 2 was
\* constructed after that.
PersistenceRoundTripWitness ==
    /\ 2 \in fresh
    /\ dep[1].live
    /\ flushed.valid
    /\ flushed.data = dep[1].data
    /\ dep[1].data.map = [a |-> <<"list", <<IntVal>>>>, b |-> NoValue]
    /\ dep[2].data = dep[1].data
    /\ registered = <<1, 2>>

\* A save() has returned in this step: the explicit call or the atexit one.
SaveReturned == dlast' # dlast /\ dlast'[1] \in {"save", "flush"}

SaveEffect ==
    SaveReturned =>
        /\ dep' = dep
        /\ siteDir' = siteDir
        /\ deps_file' = IF siteDir THEN yaml_dump(dep[dlast'[2]].data) ELSE deps_file

\* C10: save(), called explicitly or at session end, writes the backing
\* file only if its parent directory exists at that moment; with the
\* directory gone it leaves the file system and the mapping as they were.
SaveNeedsDirectory ==
    [](~siteDir => deps_file = NoValue) /\ [][SaveEffect]_vars

\* The flush at session end of a store with an entry found the directory
\* gone and wrote nothing.
SaveNeedsDirectoryWitness ==
    /\ dlast = <<"flush", 1>>
    /\ ~siteDir
    /\ deps_file = NoValue
    /\ dep[1].data.map["a"] # NoValue

(***************************************************************************)
(* A Config over a site directory that nobody changes, while time passes: *)
(* every chain that two files can form, cycles included.                   *)
(***************************************************************************)

ChainInit ==
    /\ TreeIdle
    /\ CtxIdle
    /\ DepIdle
    /\ DiskInit(StaleDocs)
    /\ ConfIdle
    /\ PathIdle
    /\ last = "none"

ChainNext ==
    \/ \E cf \in Names \cup {NoName} : Construct(cf, EmptyConf)
    \/ Resolve
    \/ LastModified
    \/ Tick

SpecChain == ChainInit /\ [][ChainNext]_vars

\* The operation that ran last raised an exception to its caller.
Raised == last = "error"

\* A file that the Config has read holds text that yaml.load cannot parse.
CodecFailed == \E i \in 1..Len(config_files) : fs[config_files[i]].kind = "bad"

\* C11: an error reaches the caller of the constructor or of last_modified
\* only when the codec failed to parse a document; in particular not from
\* last_modified on an empty provenance list, and not from a document that
\* exists and parses to None.
ErrorsOnlyFromCodec == Raised => CodecFailed

\* read_config is ordinary sequential code: a resolution that can take a
\* step does take it.
SpecChainFair == SpecChain /\ WF_vars(Resolve)

\* Following 'extends' from the requested document never leaves the
\* existing mapping documents that have a parent: the chain refers back to
\* itself.
Endless ==
    Len(ChainFrom(config_file, Cardinality(Names) + 1)) = Cardinality(Names) + 1

\* The constructor returns only for a chain that ends; on a chain that
\* refers back to itself read_config is still calling itself, one frame
\* and one provenance entry for every document it has passed.
NoCycleCheck ==
    /\ cpc = "ready" => ProperChain
    /\ (cpc # "none" /\ Endless) =>
          /\ cpc = "call"
          /\ Len(config_files) = Len(stack)
          /\ config_files = SubSeq(ChainFrom(config_file, MaxStack), 1, Len(stack))

\* C12: resolution returns exactly when the chain of 'extends', followed
\* from the requested document, reaches a document without 'extends' or a
\* missing document; on a chain of existing documents that refers back to
\* itself read_config never returns and appends a provenance entry at
\* every step.
ChainTermination ==
    /\ [] NoCycleCheck
    /\ (cpc = "call" /\ ProperChain) ~> (cpc = "ready")

\* Two documents that name each other: the recursion has come back to the
\* first and has recorded it again.
ChainTerminationWitness ==
    /\ cpc = "call"
    /\ config_file = "site.yaml"
    /\ fs["site.yaml"].extends = "base.yaml"
    /\ fs["base.yaml"].extends = "site.yaml"
    /\ Len(stack) = 3
    /\ config_files = <<"site.yaml", "base.yaml", "site.yaml">>

\* The directory is there and no save() has written the backing file yet.
Unflushed == siteDir' /\ ~flushed'.valid

\* Until a flush writes it the backing file keeps its content, and the
\* flush that writes it records the whole mapping of its own store.
FlushIsWhole ==
    /\ Unflushed => deps_file' = deps_file
    /\ (SaveReturned /\ siteDir) => flushed' = [valid |-> TRUE, data |-> dep[dlast'[2]].data]

\* C13: with two stores over one backing file, whatever the order of
\* writes, deletes, explicit save() calls and flushes at session end, the
\* file holds either the content it had when the session started or exactly
\* the mapping that the store whose flush ran last held at that moment: no
\* entry of an earlier flush by the other store is kept.
LastFlushWins ==
    /\ [] ((siteDir /\ flushed.valid) => yaml_load(deps_file) = flushed.data)
    /\ [][FlushIsWhole]_vars

\* Each store holds an entry the other lacks; at session end store 2 was
\* flushed first and store 1 last, and the file holds store 1's entry only.
LastFlushWinsWitness ==
    /\ dphase = "ended"
    /\ registered = <<1, 2>>
    /\ dlast = <<"flush", 1>>
    /\ dep[1].data.map = [a |-> <<"list", <<IntVal>>>>, b |-> NoValue]
    /\ dep[2].data.map = [a |-> NoValue, b |-> <<"list", <<IntVal>>>>]
    /\ deps_file = yaml_dump(dep[1].data)

\* A constructed Config that was given no config_file.
Unbound == cpc = "ready" /\ config_file = NoName

\* Nothing that happens to such a Config, reload() included, starts a
\* resolution or changes the tree, the provenance or the load time.
UnboundKeeps ==
    Unbound =>
        /\ cpc' = "ready"
        /\ tree' = tree
        /\ config_files' = config_files
        /\ load_time' = load_time

\* C14: reload() on a Config constructed without config_file returns at
\* once: the attribute tree, the provenance list and the recorded load time
\* are what they were, whatever has happened to the files, the
\* 'site.yaml' that the constructor read included.
ReloadUnboundIsNoOp ==
    /\ [] ((last = "reload" /\ config_file = NoName) => cpc = "ready")
    /\ [][UnboundKeeps]_vars

\* The constructor read 'site.yaml', the file was rewritten later, and
\* reload() has returned with the provenance and the load time untouched.
ReloadUnboundIsNoOpWitness ==
    /\ Unbound
    /\ last = "reload"
    /\ config_files = <<"site.yaml">>
    /\ writes = 1
    /\ mtime["site.yaml"] = 1
    /\ load_time = 0
    /\ needs_refresh

(***************************************************************************)
(* The derived paths, read after the roots were set to any values.         *)
(***************************************************************************)

PathsInit ==
    /\ TreeIdle
    /\ DiskIdle
    /\ ConfIdle
    /\ PathIdle
    /\ last = "none"
    /\ CtxIdle
    /\ DepIdle

PathsNext ==
    \/ \E k \in RootNames, v \in RootValues : SetRoot(k, v)
    \/ ReadPaths

SpecPaths == PathsInit /\ [][PathsNext]_vars

\* A relative path without ".." in it.
Plain(p) == ~p.abs /\ \A i \in 1..Len(p.segs) : p.segs[i] # ".."

\* C15: the paths read are derived from the roots the Config holds at that
\* moment: the media path is media_root resolved under the content path
\* (for plain relative roots <site_root>/<content_root>/<media_root>), and
\* the deploy, content and layout paths are their roots resolved under the
\* site path (for a plain relative root <site_root>/<root>).
DerivedPaths ==
    ppc = "read" =>
        /\ paths.media = fully_expanded_path(child(paths.content, roots.media_root))
        /\ (Plain(roots.content_root) /\ Plain(roots.media_root)) =>
              paths.media = AbsPath(sitepath.segs \o roots.content_root.segs
                                                 \o roots.media_root.segs)
        /\ \A k \in {"deploy", "content", "layout"} :
              LET root == roots[IF k = "deploy" THEN "deploy_root"
                                ELSE IF k = "content" THEN "content_root"
                                ELSE "layout_root"]
              IN  /\ root.abs => paths[k] = fully_expanded_path(root)
                  /\ Plain(root) => paths[k] = AbsPath(sitepath.segs \o root.segs)
                  /\ paths[k].abs

\* The roots were changed after construction, and the media path follows
\* the new content root.
DerivedPathsWitness ==
    /\ ppc = "read"
    /\ roots.content_root = RelPath(<<"www", "media">>)
    /\ roots.media_root = RelPath(<<"media">>)
    /\ roots.deploy_root = AbsPath(<<"www">>)
    /\ paths.media = AbsPath(<<"site", "www", "media", "media">>)
    /\ paths.deploy = AbsPath(<<"www">>)

(***************************************************************************)
(* Expando.update on a node with members, from a mapping or a node.       *)
(***************************************************************************)

UpdKeys == <<"a", "b">>

\* The values of the members: a scalar, two mappings with different keys,
\* a list of a mapping and a list of a list of a mapping.
UpdValues ==
    {IntVal, MapVal, <<"dict", << <<"b", <<IntVal>>>> >>>>,
     <<"list", <<MapVal>>>>, <<"list", << <<"list", <<MapVal>>>> >>>>}

\* The mappings over these keys, each key there or not.
UpdMaps ==
    {<<"dict", [i \in 1..Len(ks) |-> <<ks[i], <<f[ks[i]]>>>>]>> :
        ks \in {<<>>, <<"a">>, <<"b">>, <<"a", "b">>},
        f \in [{"a", "b"} -> UpdValues]}

UpdateInit ==
    /\ tpc = "input"
    /\ tin \in UpdMaps
    /\ tsrc \in UpdMaps \cup {make_expando(d) : d \in UpdMaps} \cup {NullVal}
    /\ tnode = NoValue
    /\ tout = NoValue
    /\ DiskIdle
    /\ ConfIdle
    /\ PathIdle
    /\ last = "none"
    /\ CtxIdle
    /\ DepIdle

UpdateNext == Wrap \/ Update

SpecUpdate == UpdateInit /\ [][UpdateNext]_vars

\* C16: after node.update(source) every key of source holds the wrapped
\* value of source's entry, whatever the node had under it (a mapping
\* under that key is replaced whole), and every other member of the node
\* is what it was.
ShallowOverwrite ==
    tpc = "updated" =>
        \A i \in 1..Len(UpdKeys) :
            LET k == UpdKeys[i]
            IN  Member(tnode, k) =
                    IF Tag(tsrc) = "dict" /\ Member(tsrc, k) # NoValue
                    THEN make_expando(Member(tsrc, k))
                    ELSE IF Tag(tsrc) = "Expando" /\ Member(tsrc, k) # NoValue
                    THEN Member(tsrc, k)
                    ELSE Member(make_expando(tin), k)

\* The node had a mapping under "a" and a scalar under "b"; the source
\* has another mapping under "a": nothing of the old mapping is left, and
\* "b" is untouched.
ShallowOverwriteWitness ==
    /\ tpc = "updated"
    /\ tin = <<"dict", << <<"a", <<MapVal>>>>, <<"b", <<IntVal>>>> >>>>
    /\ tsrc = <<"dict", << <<"a", << <<"dict", << <<"b", <<IntVal>>>> >>>> >>>> >>>>
    /\ Member(Member(tnode, "a"), "a") = NoValue
    /\ Member(Member(tnode, "a"), "b") = IntVal
    /\ Member(tnode, "b") = IntVal

\* C17: when the constructor has returned, the provenance list holds the
\* documents of the inheritance chain that exist, each once and in the
\* order they were read, and no file that is missing; the load time is the
\* time the resolution ran.
ProvenanceIsChain ==
    (cpc = "ready" /\ caller = "init") =>
        /\ config_files = DiskChain
        /\ \A i \in 1..Len(config_files) : fs[config_files[i]].kind = "map"
        /\ \A f \in Names :
              fs[f].kind = "missing" => \A i \in 1..Len(config_files) : config_files[i] # f
        /\ load_time \in 0..now

\* 'site.yaml' extends 'base.yaml', which extends a file that is missing:
\* the two that exist are recorded, the missing one is not.
ProvenanceIsChainWitness ==
    /\ cpc = "ready"
    /\ config_file = NoName
    /\ fs["site.yaml"].extends = "base.yaml"
    /\ fs["base.yaml"].extends = "gone.yaml"
    /\ config_files = <<"site.yaml", "base.yaml">>
    /\ load_time = 1

\* C18: after reload() the provenance list holds the documents that the
\* resolution just run has read, each once: reloading files that did not
\* change does not make it longer, and a document that is no longer in
\* the chain is no longer among the files that needs_refresh() and
\* last_modified look at.
ProvenanceIsLastResolution ==
    (Reloaded /\ ProperChain /\ DiskChain # <<>>) =>
        /\ config_files = DiskChain
        /\ needs_refresh = ContributorNewer
        /\ last_modified = Max({mtime[DiskChain[i]] : i \in 1..Len(DiskChain)})

\* A file was written after the resolution last run had read it, at a
\* later reading of the clock than the one at which that resolution began.
ModifiedAfterRead == \E f \in modified : mtime[f] > began

\* C19: a file that was written after a resolution had read it, also while
\* that resolution was still reading the ancestors, makes needs_refresh()
\* true once the resolution has completed.
NoModificationMissed ==
    (cpc = "ready" /\ last \in {"init", "reload"} /\ ModifiedAfterRead) => needs_refresh

(***************************************************************************)
(* The Config as an Expando: its own attributes and the keys it loads.    *)
(***************************************************************************)

\* The keys of the document and of the override: an ordinary key and two
\* that are also names of attributes of the Config.
AttrKeys == <<"mode", "load_time", "config_files">>

\* Documents in which each of these keys is missing, a scalar or a list.
AttrDocs ==
    {<<"dict", [i \in 1..Len(ks) |-> <<ks[i], <<f[ks[i]]>>>>]>> :
        ks \in {SelectSeq(AttrKeys, LAMBDA k : k \in S) :
                  S \in SUBSET {"mode", "load_time", "config_files"}},
        f \in [{"mode", "load_time", "config_files"} -> {IntVal, <<"list", <<>>>>}]}

AttrsInit ==
    /\ tpc = "input"
    /\ tin \in AttrDocs
    /\ tsrc \in AttrDocs \cup {NullVal}
    /\ tnode = NoValue
    /\ tout = NoValue
    /\ DiskIdle
    /\ ConfIdle
    /\ PathIdle
    /\ last = "none"
    /\ CtxIdle
    /\ DepIdle

AttrsNext == ConfigAttrs \/ Unwrap

SpecAttrs == AttrsInit /\ [][AttrsNext]_vars

\* C20: whatever keys the document and the override have, the Config's
\* provenance list, load time, site root, bound file name and built-in
\* defaults are what the constructor and the resolution set, and to_dict()
\* of the Config is the merged configuration and nothing else.
BookkeepingIsSafe ==
    /\ tpc \in {"wrapped", "unwrapped"} =>
          /\ Member(tnode, "config_files") = <<"list", <<FileObj>>>>
          /\ Member(tnode, "load_time") = DateTime
          /\ Member(tnode, "sitepath") = FolderObj
          /\ Member(tnode, "config_file") = StrVal
          /\ Member(tnode, "default_config") = DefaultsDict
    /\ tpc = "unwrapped" =>
          \A k \in {"default_config", "config_file", "config_dict", "load_time",
                     "config_files", "sitepath", "mode"} :
              Member(tout, k) = Member(LoadDoc(tin, tsrc), k)

====
